---- MODULE Spec2Model ----
(***************************************************************************)
(* Model of IORedisAdapter (src/lib/IORedisAdapter.ts, lines 1-241): the   *)
(* NextAuth adapter that stores users, accounts, sessions and verification *)
(* tokens as Redis hashes, with plain string keys as secondary pointers.   *)
(*                                                                         *)
(* The Redis keyspace is the variable `store`: a function from the keys    *)
(* that exist to their value, a hash (field -> string) or a string.  A key *)
(* is the pair <<prefix, identity>> that the code concatenates.  A record  *)
(* inside the program is a function from field names to values, a value    *)
(* being [t |-> "str", v |-> s] or [t |-> "date", v |-> iso] where iso is  *)
(* the canonical toISOString() text of the instant.                        *)
(*                                                                         *)
(* A call is either run to completion in one step (the sequential          *)
(* specifications) or by a process of `proc` one backend round-trip at a   *)
(* time, each `await` of the code being one step; `sched` is the order in  *)
(* which those round-trips reached the backend.                            *)
(*                                                                         *)
(* The file holds a second, earlier copy of the adapter (lines 243-462,    *)
(* with console.log calls, no date codec and client.hdel in every delete); *)
(* pages/api/auth/[...nextauth].ts imports one IORedisAdapter, and the     *)
(* copy modelled here is the first, complete one.                          *)
(***************************************************************************)
EXTENDS Integers, Sequences, FiniteSets, TLC

VARIABLES store, issued, last, budget, proc, sched

vars == <<store, issued, last, budget, proc, sched>>

-----------------------------------------------------------------------------
(* Bounds and input domains                                                *)

\* number of calls in a run
MaxOps == 4

\* the values uuid() can draw, each at most once
UserIds == {"u1", "u2"}

\* a user id that uuid() never returned
ForeignId == "u0"

AllIds == UserIds \cup {ForeignId}

\* the strings callers pass are not timestamps: none matches isoDateRE
Emails == {"a@x.com", "b@x.com"}

Names == {"A"}

Providers == {"github"}

ProviderAccountIds == {"42", "43"}

AccessTokens == {"gho_1"}

SessionTokens == {"s1", "s2"}

\* an id that is no session token
OtherSessionIds == {"s0"}

Identifiers == {"i1", "i2"}

Tokens == {"t1", "t2"}

\* canonical toISOString() texts, one per instant
Instants == {"2030-01-01T00:00:00.000Z"}

\* texts that match isoDateRE without being canonical, with their instant
NonCanonical == [x \in {"2030-01-01T00:00Z"} |-> "2030-01-01T00:00:00.000Z"]

-----------------------------------------------------------------------------
(* Values and the hash codec                                               *)

Str(s) == [t |-> "str", v |-> s]

Date(iso) == [t |-> "date", v |-> iso]

Null == [null |-> TRUE]

\* String(value) as used by key concatenation; a Date prints in the
\* non-ISO toString() form, which isoDateRE does not match
ToText(val) == IF val.t = "date" THEN "Date(" \o val.v \o ")" ELSE val.v

isDate(s) == s \in Instants \/ s \in DOMAIN NonCanonical

DateParse(s) == IF s \in Instants THEN s ELSE NonCanonical[s]

\* the reduce of setObjectAsHash: Date -> toISOString(), others as they are
EncodeObject(object) ==
    [f \in DOMAIN object |-> object[f].v]

\* every field is handed back as the string Redis returned
DecodeObject_noDates(hash) ==
    [f \in DOMAIN hash |-> Str(hash[f])]

\* the reduce of loadObjectFromHash
DecodeObject(hash) ==
    [f \in DOMAIN hash |-> IF isDate(hash[f]) THEN Date(DateParse(hash[f]))
                                              ELSE Str(hash[f])]

isEmpty(obj) == DOMAIN obj = {}

-----------------------------------------------------------------------------
(* Key resolver (default options).  Two keys of different kinds coincide   *)
(* only for a provider named "user" or a session token that starts with    *)
(* "user:"; the inputs below hold neither.                                 *)

getUserByEmailKey(email) == <<"user:email:", email>>

getUserKey(userId) == <<"user:", userId>>

getAccountKey(accountId) == <<"account:", accountId>>

getAccountByUserIdKey(userId) == <<"account:user:", userId>>

getAccountId(providerAccountId, provider) == provider \o ":" \o providerAccountId

getSessionKey(sessionId) == <<"session:", sessionId>>

getSessionByUserIdKey(userId) == <<"session:user:", userId>>

getVerificationKey(tokenId) == <<"verification:", tokenId>>

-----------------------------------------------------------------------------
(* Redis commands on a keyspace S                                          *)

Exists(S, key) == key \in DOMAIN S

\* HSET key field value [field value ...]: sets the given fields, keeps the rest
HSet(S, key, fields) ==
    LET old == IF Exists(S, key) THEN S[key] ELSE <<>>
    IN  (key :> (fields @@ old)) @@ S

\* HGETALL: the empty object for a key that does not exist
HGetAll(S, key) == IF Exists(S, key) THEN S[key] ELSE <<>>

Set(S, key, value) == (key :> value) @@ S

\* DEL key [key ...]
Del(S, keys) == [k \in DOMAIN S \ keys |-> S[k]]

\* HDEL key field [field ...]: with no field Redis replies "ERR wrong number
\* of arguments for 'hdel' command"; a hash left without fields is removed
HDel(S, key, fields) ==
    IF fields = {} THEN [err |-> TRUE, S |-> S]
    ELSE IF ~Exists(S, key) THEN [err |-> FALSE, S |-> S]
    ELSE LET rest == [f \in DOMAIN S[key] \ fields |-> S[key][f]]
         IN  [err |-> FALSE,
              S |-> IF DOMAIN rest = {} THEN Del(S, {key})
                                        ELSE (key :> rest) @@ S]

-----------------------------------------------------------------------------
(* Results of an operation: the keyspace it leaves and what it returns     *)

Value(v) == [kind |-> "value", val |-> v]

NullRet == [kind |-> "null"]

VoidRet == [kind |-> "void"]

\* a rejected promise: the backend replied with an error
ErrorRet == [kind |-> "error"]

Res(S, ret) == [S |-> S, ret |-> ret]

\* a field that is present and not the empty string
Truthy(object, f) == f \in DOMAIN object /\ object[f].v # ""

\* String(object[f]) in a template or concatenation
Text(object, f) == IF f \in DOMAIN object THEN ToText(object[f]) ELSE "undefined"

-----------------------------------------------------------------------------
(* Internal helpers of the adapter                                         *)

\* every object the adapter writes carries at least its id or identifier, so
\* HSET always receives a field
setObjectAsHash(S, key, object) == HSet(S, key, EncodeObject(object))

loadObjectFromHash(S, key) ==
    LET object == HGetAll(S, key)
    IN  IF isEmpty(object) THEN Null ELSE DecodeObject(object)

\* the email pointer is never written
setUser_noEmailPointer(S, id, user) == setObjectAsHash(S, getUserKey(id), user)

setUser(S, id, user) ==
    LET S1 == setObjectAsHash(S, getUserKey(id), user)
    IN  IF Truthy(user, "email")
        THEN Set(S1, getUserByEmailKey(Text(user, "email")), id)
        ELSE S1

getUser(S, id) == loadObjectFromHash(S, getUserKey(id))

\* the account the user's pointer named before is deleted first
setAccount_replacePrevious(S, id, account) ==
    LET accountKey == getAccountKey(id)
        pointer == getAccountByUserIdKey(Text(account, "userId"))
        S0 == IF Exists(S, pointer) THEN Del(S, {S[pointer]}) ELSE S
        S1 == setObjectAsHash(S0, accountKey, account)
    IN  Set(S1, pointer, accountKey)

setAccount(S, id, account) ==
    LET accountKey == getAccountKey(id)
        S1 == setObjectAsHash(S, accountKey, account)
    IN  Set(S1, getAccountByUserIdKey(Text(account, "userId")), accountKey)

getAccount(S, id) == loadObjectFromHash(S, getAccountKey(id))

\* client.hdel(key) names no field: the reply is an error, the promise
\* rejects and the DEL of the pointer on the next line is never sent
deleteAccount(S, id) ==
    LET key == getAccountKey(id)
        account == loadObjectFromHash(S, key)
        r == HDel(S, key, {})
    IN  IF account = Null THEN Res(S, NullRet)
        ELSE IF r.err THEN Res(r.S, ErrorRet)
        ELSE Res(Del(r.S, {getAccountByUserIdKey(Text(account, "userId"))}),
                 VoidRet)

\* the session-by-user pointer is never written
setSession_pointer_skip(S, id, session) == S

\* client.set(getSessionByUserIdKey(session.userId), sessionKey)
setSession_pointer(S, id, session) ==
    Set(S, getSessionByUserIdKey(Text(session, "userId")), getSessionKey(id))

setSession(S, id, session) ==
    LET sessionKey == getSessionKey(id)
        S1 == setObjectAsHash(S, sessionKey, session)
    IN  setSession_pointer(S1, id, session)

\* { id: session.id, ...session }: every stored session carries id, so the
\* spread leaves the loaded object as it is
getSession(S, id) == loadObjectFromHash(S, getSessionKey(id))

deleteSession(S, sessionToken) ==
    LET session == getSession(S, sessionToken)
    IN  IF session = Null THEN Res(S, NullRet)
        ELSE Res(Del(Del(S, {getSessionKey(sessionToken)}),
                     {getSessionByUserIdKey(Text(session, "userId"))}),
                 VoidRet)

setVerificationToken(S, id, token) ==
    setObjectAsHash(S, getVerificationKey(id), token)

getVerificationToken(S, id) == loadObjectFromHash(S, getVerificationKey(id))

\* the token hash is left in place (client.hdel(tokenKey) removes nothing)
deleteVerificationToken_keep(S, id) == S

deleteVerificationToken(S, id) == Del(S, {getVerificationKey(id)})

-----------------------------------------------------------------------------
(* The adapter's operations: keyspace before -> keyspace after and result  *)

\* id is the uuid() drawn by the call
createUser(S, id, user) ==
    LET u == ("id" :> Str(id)) @@ user
    IN  Res(setUser(S, id, u), Value(u))

getUserOp(S, id) ==
    LET user == getUser(S, id)
    IN  Res(S, IF user = Null THEN NullRet ELSE Value(user))

getUserByEmail(S, email) ==
    IF ~Exists(S, getUserByEmailKey(email)) THEN Res(S, NullRet)
    ELSE getUserOp(S, S[getUserByEmailKey(email)])

\* the two components of the account id are passed in the other order
getUserByAccount_swapped(S, providerAccountId, provider) ==
    LET account == getAccount(S, getAccountId(provider, providerAccountId))
    IN  IF account = Null THEN Res(S, NullRet)
        ELSE getUserOp(S, Text(account, "userId"))

getUserByAccount(S, providerAccountId, provider) ==
    LET account == getAccount(S, getAccountId(providerAccountId, provider))
    IN  IF account = Null THEN Res(S, NullRet)
        ELSE getUserOp(S, Text(account, "userId"))

\* { ...updates, ...user }: the stored fields win over the supplied ones
updateUser_existingWins(S, updates) ==
    LET userId == Text(updates, "id")
        user == getUser(S, userId)
        merged == IF user = Null THEN updates ELSE user @@ updates
    IN  Res(setUser(S, userId, merged), Value(merged))

\* { ...user, ...updates }: spreading null adds nothing
updateUser(S, updates) ==
    LET userId == Text(updates, "id")
        user == getUser(S, userId)
        merged == IF user = Null THEN updates ELSE updates @@ user
    IN  Res(setUser(S, userId, merged), Value(merged))

\* the hashes the two by-user pointers name are left in place
deleteUser_pointersOnly(S, userId) ==
    LET user == getUser(S, userId)
        accountPtr == getAccountByUserIdKey(userId)
        sessionPtr == getSessionByUserIdKey(userId)
        S1 == Del(S, {getUserByEmailKey(Text(user, "email")), accountPtr, sessionPtr})
    IN  IF user = Null THEN Res(S, NullRet)
        ELSE Res(Del(S1, {getUserKey(userId)}), VoidRet)

deleteUser(S, userId) ==
    LET user == getUser(S, userId)
        accountPtr == getAccountByUserIdKey(userId)
        sessionPtr == getSessionByUserIdKey(userId)
        S1 == Del(S, {getUserByEmailKey(Text(user, "email")), accountPtr, sessionPtr})
        S2 == IF Exists(S, sessionPtr) THEN Del(S1, {S[sessionPtr]}) ELSE S1
        S3 == IF Exists(S, accountPtr) THEN Del(S2, {S[accountPtr]}) ELSE S2
    IN  IF user = Null THEN Res(S, NullRet)
        ELSE Res(Del(S3, {getUserKey(userId)}), VoidRet)

linkAccount(S, account) ==
    LET id == getAccountId(Text(account, "providerAccountId"), Text(account, "provider"))
        a == ("id" :> Str(id)) @@ account
    IN  Res(setAccount(S, id, a), Value(a))

unlinkAccount(S, providerAccountId, provider) ==
    LET r == deleteAccount(S, getAccountId(providerAccountId, provider))
    IN  Res(r.S, IF r.ret = ErrorRet THEN ErrorRet ELSE VoidRet)

createSession(S, session) ==
    LET id == Text(session, "sessionToken")
        s == ("id" :> Str(id)) @@ session
    IN  Res(setSession(S, id, s), Value(s))

\* the session is returned although its user is missing
getSessionAndUser_noUserCheck(S, sessionToken) ==
    LET session == getSession(S, sessionToken)
        user == getUser(S, Text(session, "userId"))
    IN  IF session = Null THEN Res(S, NullRet)
        ELSE Res(S, Value([session |-> session, user |-> user]))

getSessionAndUser(S, sessionToken) ==
    LET session == getSession(S, sessionToken)
        user == getUser(S, Text(session, "userId"))
    IN  IF session = Null THEN Res(S, NullRet)
        ELSE IF user = Null THEN Res(S, NullRet)
        ELSE Res(S, Value([session |-> session, user |-> user]))

updateSession(S, updates) ==
    LET id == Text(updates, "sessionToken")
        session == getSession(S, id)
        merged == updates @@ session
    IN  IF session = Null THEN Res(S, NullRet)
        ELSE Res(setSession(S, id, merged), Value(merged))

createVerificationToken(S, verificationToken) ==
    Res(setVerificationToken(S, Text(verificationToken, "identifier"), verificationToken),
        Value(verificationToken))

\* the presented token is not compared with the stored one
useVerificationToken_anyToken(S, verificationToken) ==
    LET id == Text(verificationToken, "identifier")
        token == getVerificationToken(S, id)
    IN  IF token = Null THEN Res(S, NullRet)
        ELSE Res(deleteVerificationToken(S, id), Value(token))

\* verificationToken.token !== token.token compares the presented string
\* with the decoded field
useVerificationToken(S, verificationToken) ==
    LET id == Text(verificationToken, "identifier")
        token == getVerificationToken(S, id)
    IN  IF token = Null THEN Res(S, NullRet)
        ELSE IF "token" \notin DOMAIN token
                \/ verificationToken["token"] # token["token"] THEN Res(S, NullRet)
        ELSE Res(deleteVerificationToken(S, id), Value(token))

-----------------------------------------------------------------------------
(* Inputs of the callers                                                   *)

Opt(f, S) == {<<>>} \cup {f :> Str(x) : x \in S}

OptDate(f, S) == {<<>>} \cup {f :> Date(x) : x \in S}

\* createUser receives the profile without an id
UserRecords == {e @@ n : e \in Opt("email", Emails), n \in Opt("name", Names)}

\* the user ids a caller passes: the ones createUser returned so far, and one
\* that it never returned (uuid() does not draw an id a caller already used)
CallerIds(ids) == ids \cup {ForeignId}

\* updateUser receives Partial<AdapterUser> with its id
UserUpdates(ids) == {("id" :> Str(id)) @@ r : id \in ids, r \in UserRecords}

AccountRecords(ids) ==
    {[provider |-> Str(p), providerAccountId |-> Str(a), userId |-> Str(u)] @@ t :
        p \in Providers, a \in ProviderAccountIds, u \in ids,
        t \in Opt("access_token", AccessTokens)}

SessionRecords(ids) ==
    {[sessionToken |-> Str(t), userId |-> Str(u), expires |-> Date(e)] :
        t \in SessionTokens, u \in ids, e \in Instants}

\* Partial<AdapterSession> with its sessionToken; AdapterSession has an id
\* field, so the updates may carry one, and it need not be the session token
SessionUpdates(ids) ==
    {("sessionToken" :> Str(t)) @@ u @@ e @@ i :
        t \in SessionTokens, u \in Opt("userId", ids),
        e \in OptDate("expires", Instants), i \in Opt("id", OtherSessionIds)}

VerificationRecords ==
    {[identifier |-> Str(i), token |-> Str(t), expires |-> Date(e)] :
        i \in Identifiers, t \in Tokens, e \in Instants}

VerificationUses ==
    {[identifier |-> Str(i), token |-> Str(t)] : i \in Identifiers, t \in Tokens}

-----------------------------------------------------------------------------
(* State machine: every call runs to completion before the next starts     *)

\* what a call did to the keyspace: the keys it removed, and the keys it
\* created or whose value it changed
Removed(S, T) == DOMAIN S \ DOMAIN T

Written(S, T) == {k \in DOMAIN T : k \notin DOMAIN S \/ S[k] # T[k]}

\* a call: it spends one unit of the run's budget, leaves the keyspace r.S and
\* is remembered in `last` with its argument, its result and its effect
Done(op, arg, r) ==
    /\ budget > 0
    /\ budget' = budget - 1
    /\ store' = r.S
    /\ last' = [op |-> op, arg |-> arg, ret |-> r.ret,
                removed |-> Removed(store, r.S), written |-> Written(store, r.S)]
    /\ UNCHANGED <<proc, sched>>

\* the calls that may be in flight at the same time
Procs == {"p1", "p2"}

Idle == [op |-> "none", pc |-> "idle", arg |-> <<>>, local |-> Null,
         ret |-> VoidRet]

Init ==
    /\ store = <<>>
    /\ issued = {}
    /\ budget = MaxOps
    /\ last = [op |-> "init", arg |-> <<>>, ret |-> VoidRet,
               removed |-> {}, written |-> {}]
    /\ proc = [p \in Procs |-> Idle]
    /\ sched = <<>>

CreateUser ==
    \E id \in UserIds \ issued, user \in UserRecords :
        /\ issued' = issued \cup {id}
        /\ Done("createUser", user, createUser(store, id, user))

GetUser ==
    \E id \in CallerIds(issued) :
        /\ Done("getUser", id, getUserOp(store, id))
        /\ UNCHANGED issued

GetUserByEmail ==
    \E email \in Emails :
        /\ Done("getUserByEmail", email, getUserByEmail(store, email))
        /\ UNCHANGED issued

GetUserByAccount ==
    \E a \in ProviderAccountIds, p \in Providers :
        /\ Done("getUserByAccount", <<a, p>>, getUserByAccount(store, a, p))
        /\ UNCHANGED issued

UpdateUser ==
    \E updates \in UserUpdates(CallerIds(issued)) :
        /\ Done("updateUser", updates, updateUser(store, updates))
        /\ UNCHANGED issued

DeleteUser ==
    \E id \in CallerIds(issued) :
        /\ Done("deleteUser", id, deleteUser(store, id))
        /\ UNCHANGED issued

LinkAccount ==
    \E account \in AccountRecords(CallerIds(issued)) :
        /\ Done("linkAccount", account, linkAccount(store, account))
        /\ UNCHANGED issued

UnlinkAccount ==
    \E a \in ProviderAccountIds, p \in Providers :
        /\ Done("unlinkAccount", <<a, p>>, unlinkAccount(store, a, p))
        /\ UNCHANGED issued

CreateSession ==
    \E session \in SessionRecords(CallerIds(issued)) :
        /\ Done("createSession", session, createSession(store, session))
        /\ UNCHANGED issued

GetSessionAndUser ==
    \E t \in SessionTokens :
        /\ Done("getSessionAndUser", t, getSessionAndUser(store, t))
        /\ UNCHANGED issued

UpdateSession ==
    \E updates \in SessionUpdates(CallerIds(issued)) :
        /\ Done("updateSession", updates, updateSession(store, updates))
        /\ UNCHANGED issued

DeleteSession ==
    \E t \in SessionTokens :
        /\ Done("deleteSession", t, deleteSession(store, t))
        /\ UNCHANGED issued

CreateVerificationToken ==
    \E v \in VerificationRecords :
        /\ Done("createVerificationToken", v, createVerificationToken(store, v))
        /\ UNCHANGED issued

UseVerificationToken ==
    \E v \in VerificationUses :
        /\ Done("useVerificationToken", v, useVerificationToken(store, v))
        /\ UNCHANGED issued

Next ==
    \/ CreateUser
    \/ GetUser
    \/ GetUserByEmail
    \/ GetUserByAccount
    \/ UpdateUser
    \/ DeleteUser
    \/ LinkAccount
    \/ UnlinkAccount
    \/ CreateSession
    \/ GetSessionAndUser
    \/ UpdateSession
    \/ DeleteSession
    \/ CreateVerificationToken
    \/ UseVerificationToken

Spec == Init /\ [][Next]_vars

-----------------------------------------------------------------------------
(* The same calls, restricted to the operations a group of claims is about *)

NextToken ==
    \/ CreateVerificationToken
    \/ UseVerificationToken

SpecToken == Init /\ [][NextToken]_vars

NextUser ==
    \/ CreateUser
    \/ GetUser
    \/ GetUserByEmail
    \/ UpdateUser
    \/ DeleteUser

SpecUser == Init /\ [][NextUser]_vars

NextAccount ==
    \/ CreateUser
    \/ DeleteUser
    \/ LinkAccount
    \/ UnlinkAccount
    \/ GetUserByAccount

SpecAccount == Init /\ [][NextAccount]_vars

NextSession ==
    \/ CreateUser
    \/ DeleteUser
    \/ CreateSession
    \/ UpdateSession
    \/ DeleteSession
    \/ GetSessionAndUser

SpecSession == Init /\ [][NextSession]_vars

NextCascade ==
    \/ CreateUser
    \/ UpdateUser
    \/ LinkAccount
    \/ UnlinkAccount
    \/ CreateSession
    \/ DeleteSession
    \/ DeleteUser

SpecCascade == Init /\ [][NextCascade]_vars

NextUpdate ==
    \/ CreateUser
    \/ UpdateUser
    \/ CreateSession
    \/ UpdateSession

SpecUpdate == Init /\ [][NextUpdate]_vars

-----------------------------------------------------------------------------
(* Verification tokens                                                     *)

\* the stored token of identifier i is the text t
TokenStored(S, i, t) ==
    /\ Exists(S, getVerificationKey(i))
    /\ "token" \in DOMAIN S[getVerificationKey(i)]
    /\ S[getVerificationKey(i)]["token"] = t

C1_Create ==
    LET r == last'.arg
    IN  last'.op = "createVerificationToken"
            => /\ TokenStored(store', r.identifier.v, r.token.v)
               /\ getVerificationToken(store', r.identifier.v) = r

C1_Use ==
    LET v == last'.arg
        key == getVerificationKey(v.identifier.v)
        matches == TokenStored(store, v.identifier.v, v.token.v)
    IN  last'.op = "useVerificationToken"
            => /\ matches => /\ last'.ret = Value(DecodeObject(store[key]))
                             /\ ~Exists(store', key)
               /\ ~Exists(store, key) => /\ last'.ret = NullRet
                                         /\ ~Exists(store', key)
               /\ last'.ret.kind = "value" => matches

C1_OnlyCreate ==
    \A i \in Identifiers :
        (~Exists(store, getVerificationKey(i)) /\ Exists(store', getVerificationKey(i)))
            => /\ last'.op = "createVerificationToken"
               /\ last'.arg.identifier = Str(i)

\* C1: createVerificationToken({identifier: i, token: t}) stores t under i; a
\* useVerificationToken(i, t) that finds t stored returns the stored record and
\* removes the verification hash; a use that finds no hash returns not-found;
\* and only createVerificationToken for i makes the hash of i exist again. So
\* between two creations for i at most one use succeeds.
C1_SingleUse == [][C1_Create /\ C1_Use /\ C1_OnlyCreate]_vars

\* a use has just returned the record and removed the hash
C1_Witness ==
    /\ last.op = "useVerificationToken"
    /\ last.ret.kind = "value"
    /\ last.ret.val["token"] = last.arg.token
    /\ last.removed = {getVerificationKey(last.arg.identifier.v)}

C2_Use ==
    LET v == last'.arg
        key == getVerificationKey(v.identifier.v)
        correct == [identifier |-> v.identifier, token |-> Str(store[key]["token"])]
    IN  (/\ last'.op = "useVerificationToken"
         /\ ~TokenStored(store, v.identifier.v, v.token.v))
            => /\ last'.ret = NullRet
               /\ store' = store
               /\ Exists(store, key)
                    => useVerificationToken(store', correct).ret.kind = "value"

\* C2: useVerificationToken(i, p) returns not-found and leaves every key as it
\* was whenever no verification hash exists for i or the stored token differs
\* from p; after a failed attempt on a stored token, a use with the stored
\* token still succeeds.
C2_FailedUseNoEffect == [][C2_Use]_vars

\* a use with a wrong token has just failed on a stored token
C2_Witness ==
    /\ last.op = "useVerificationToken"
    /\ last.ret = NullRet
    /\ Exists(store, getVerificationKey(last.arg.identifier.v))
    /\ ~TokenStored(store, last.arg.identifier.v, last.arg.token.v)
    /\ last.removed = {}
    /\ last.written = {}

-----------------------------------------------------------------------------
(* Cascade delete                                                          *)

AccountIds == {getAccountId(a, p) : a \in ProviderAccountIds, p \in Providers}

\* the account hash `id` is stored for user U and the account-by-user pointer
\* of U names it: the state linkAccount leaves
Linked(S, id, U) ==
    /\ Exists(S, getAccountKey(id))
    /\ S[getAccountKey(id)]["userId"] = U
    /\ Exists(S, getAccountByUserIdKey(U))
    /\ S[getAccountByUserIdKey(U)] = getAccountKey(id)

\* the session hash `t` is stored for user U and the session-by-user pointer
\* of U names it: the state createSession leaves
InSession(S, t, U) ==
    /\ Exists(S, getSessionKey(t))
    /\ S[getSessionKey(t)]["userId"] = U
    /\ Exists(S, getSessionByUserIdKey(U))
    /\ S[getSessionByUserIdKey(U)] = getSessionKey(t)

C3_Link ==
    LET acc == last'.arg
    IN  last'.op = "linkAccount"
            => Linked(store', getAccountId(acc.providerAccountId.v, acc.provider.v),
                      acc.userId.v)

C3_Session ==
    LET sess == last'.arg
    IN  last'.op = "createSession"
            => /\ InSession(store', sess.sessionToken.v, sess.userId.v)
               /\ \A id \in AccountIds, U \in AllIds :
                    Linked(store, id, U) => Linked(store', id, U)
               /\ \A U \in AllIds :
                    Exists(store', getUserKey(U)) <=> Exists(store, getUserKey(U))

C3_Delete ==
    LET U == last'.arg
    IN  (last'.op = "deleteUser" /\ Exists(store, getUserKey(U)))
            => \A id \in AccountIds, t \in SessionTokens :
                (Linked(store, id, U) /\ InSession(store, t, U))
                    => /\ last'.ret = VoidRet
                       /\ ~Exists(store', getUserKey(U))
                       /\ ~Exists(store', getAccountKey(id))
                       /\ ~Exists(store', getSessionKey(t))
                       /\ ~Exists(store', getAccountByUserIdKey(U))
                       /\ ~Exists(store', getSessionByUserIdKey(U))
                       /\ "email" \in DOMAIN store[getUserKey(U)]
                            => ~Exists(store', getUserByEmailKey(store[getUserKey(U)]["email"]))
                       /\ getUser(store', U) = Null
                       /\ getAccount(store', id) = Null
                       /\ getSession(store', t) = Null

\* C3: linkAccount(acc) with acc.userId = U leaves the account hash stored and
\* the account-by-user pointer of U naming it; a following createSession(sess)
\* with sess.userId = U keeps that and leaves the session hash stored and the
\* session-by-user pointer of U naming it; deleteUser(U) on an existing user
\* in that state leaves the user hash, the account hash, the session hash and
\* the email, account-by-user and session-by-user pointers of U all absent.
C3_CascadeDelete == [][C3_Link /\ C3_Session /\ C3_Delete]_vars

\* deleteUser has just removed a user hash, an email pointer, both by-user
\* pointers, an account hash and a session hash
C3_Witness ==
    /\ last.op = "deleteUser"
    /\ last.ret = VoidRet
    /\ {getUserKey(last.arg), getAccountByUserIdKey(last.arg),
        getSessionByUserIdKey(last.arg)} \subseteq last.removed
    /\ \E e \in Emails : getUserByEmailKey(e) \in last.removed
    /\ \E id \in AccountIds : getAccountKey(id) \in last.removed
    /\ \E t \in SessionTokens : getSessionKey(t) \in last.removed

-----------------------------------------------------------------------------
(* Unlinking and repeated deletes                                          *)

C4_Unlink ==
    LET a == last'.arg[1]
        p == last'.arg[2]
        key == getAccountKey(getAccountId(a, p))
    IN  last'.op = "unlinkAccount"
            => IF Exists(store, key)
               THEN /\ last'.ret # ErrorRet
                    /\ ~Exists(store', key)
                    /\ ~Exists(store', getAccountByUserIdKey(store[key]["userId"]))
                    /\ getUserByAccount(store', a, p).ret = NullRet
               ELSE /\ last'.ret # ErrorRet
                    /\ store' = store

\* C4: unlinkAccount(provider, providerAccountId) on a stored account completes
\* without error and removes the account hash and the account-by-user pointer
\* of its owner, so that getUserByAccount for the pair returns not-found; on
\* an account that is not stored it changes nothing.
C4_UnlinkRemoves == [][C4_Unlink]_vars

DeleteOps == {"deleteUser", "unlinkAccount", "deleteSession", "useVerificationToken"}

C5_Twice ==
    last'.op \in DeleteOps
        => /\ last'.ret # ErrorRet
           /\ (last.op = last'.op /\ last.arg = last'.arg) => store' = store

\* C5: no call of deleteUser, unlinkAccount, deleteSession or
\* useVerificationToken raises an error, and the second of two calls in a row
\* with the same argument leaves the keyspace as the first call left it.
C5_DeleteIdempotent == [][C5_Twice]_vars

-----------------------------------------------------------------------------
(* Users                                                                   *)

\* C6: right after createUser(record) with an email e returned the id U,
\* getUserByEmail(e) and getUser(U) both find a user and return the same
\* record, whose id is U and whose email is e.
C6_IndexConsistency ==
    (last.op = "createUser" /\ "email" \in DOMAIN last.arg)
        => LET U == last.ret.val["id"].v
               e == last.arg["email"].v
               byEmail == getUserByEmail(store, e).ret
               byId == getUserOp(store, U).ret
           IN  /\ last.ret.kind = "value"
               /\ byEmail.kind = "value"
               /\ byId.kind = "value"
               /\ byEmail = byId
               /\ byId.val["id"] = Str(U)
               /\ byId.val["email"] = Str(e)

\* createUser has just stored a user with an email and written its pointer
C6_Witness ==
    /\ last.op = "createUser"
    /\ "email" \in DOMAIN last.arg
    /\ getUserByEmailKey(last.arg["email"].v) \in last.written
    /\ getUserKey(last.ret.val["id"].v) \in last.written

\* m is p over u: the fields of p with p's values, the others with u's
MergeOf(m, p, u) ==
    /\ DOMAIN m = DOMAIN p \cup DOMAIN u
    /\ \A f \in DOMAIN p : m[f] = p[f]
    /\ \A f \in DOMAIN u \ DOMAIN p : m[f] = u[f]

C7_User ==
    LET p == last'.arg
        u == getUser(store, p["id"].v)
    IN  (last'.op = "updateUser" /\ u # Null)
            => /\ last'.ret.kind = "value"
               /\ MergeOf(last'.ret.val, p, u)
               /\ getUser(store', p["id"].v) = last'.ret.val

C7_Session ==
    LET p == last'.arg
        u == getSession(store, p["sessionToken"].v)
    IN  (last'.op = "updateSession" /\ u # Null)
            => /\ last'.ret.kind = "value"
               /\ MergeOf(last'.ret.val, p, u)
               /\ getSession(store', p["sessionToken"].v) = last'.ret.val

\* C7: updateUser(p) on a stored user u with p.id = u.id returns and stores
\* the record that has p's value in every field p supplies and u's value in
\* every other field of u; updateSession does the same on a stored session.
C7_MergeUpdate == [][C7_User /\ C7_Session]_vars

\* updateUser has just changed a stored user and returned a record with a
\* field that the update did not supply
C7_Witness ==
    /\ last.op = "updateUser"
    /\ last.ret.kind = "value"
    /\ getUserKey(last.arg["id"].v) \in last.written
    /\ DOMAIN last.ret.val # DOMAIN last.arg
    /\ "email" \in DOMAIN last.arg

C8_Update ==
    LET p == last'.arg
    IN  (last'.op = "updateUser" /\ ~Exists(store, getUserKey(p["id"].v)))
            => /\ last'.ret.kind # "value"
               /\ store' = store

\* C8: updateUser(partial) for an id whose user hash is absent returns
\* not-found, creates no user hash and no email pointer, and leaves the
\* keyspace as it was.
C8_UpdateAbsentNoEffect == [][C8_Update]_vars

-----------------------------------------------------------------------------
(* Lookups                                                                 *)

\* the account hash `id` is stored with owner U and the user hash of U exists
OwnedBy(S, id, U) ==
    /\ Exists(S, getAccountKey(id))
    /\ S[getAccountKey(id)]["userId"] = U
    /\ Exists(S, getUserKey(U))

C9_Link ==
    LET acc == last'.arg
        id == getAccountId(acc.providerAccountId.v, acc.provider.v)
        found == getUserByAccount(store', acc.providerAccountId.v, acc.provider.v).ret
    IN  (last'.op = "linkAccount" /\ Exists(store, getUserKey(acc.userId.v)))
            => /\ OwnedBy(store', id, acc.userId.v)
               /\ found.kind = "value"
               /\ found.val["id"] = acc.userId

C9_Keep ==
    \A id \in AccountIds, U \in AllIds :
        (/\ OwnedBy(store, id, U)
         /\ last'.op \notin {"deleteUser", "unlinkAccount"}
         /\ last'.op = "linkAccount"
                => getAccountId(last'.arg.providerAccountId.v, last'.arg.provider.v) # id)
            => OwnedBy(store', id, U)

C9_Lookup ==
    LET a == last'.arg[1]
        p == last'.arg[2]
        id == getAccountId(a, p)
    IN  last'.op = "getUserByAccount"
            => /\ store' = store
               /\ \A U \in AllIds :
                    OwnedBy(store, id, U)
                        => /\ last'.ret = Value(getUser(store, U))
                           /\ last'.ret.val["id"] = Str(U)
               /\ ~Exists(store, getAccountKey(id)) => last'.ret = NullRet

C9_Never ==
    \A id \in AccountIds :
        (~Exists(store, getAccountKey(id)) /\ Exists(store', getAccountKey(id)))
            => /\ last'.op = "linkAccount"
               /\ getAccountId(last'.arg.providerAccountId.v, last'.arg.provider.v) = id

\* C9: linkAccount({provider: P, providerAccountId: A, userId: U}) for an
\* existing user U leaves the account stored with owner U; it stays so until a
\* delete or a new link of (P, A); getUserByAccount for a pair stored with
\* owner U returns the user whose id is U; an account hash exists only once
\* its pair was linked, and for a pair with no hash the lookup returns
\* not-found.
C9_AccountLookup == [][C9_Link /\ C9_Keep /\ C9_Lookup /\ C9_Never]_vars

\* getUserByAccount has just returned the owner of a linked account
C9_Witness ==
    /\ last.op = "getUserByAccount"
    /\ last.ret.kind = "value"
    /\ OwnedBy(store, getAccountId(last.arg[1], last.arg[2]), last.ret.val["id"].v)

C10_Get ==
    LET t == last'.arg
        sKey == getSessionKey(t)
        uKey == getUserKey(store[sKey]["userId"])
    IN  last'.op = "getSessionAndUser"
            => /\ store' = store
               /\ IF Exists(store, sKey) /\ Exists(store, uKey)
                  THEN /\ last'.ret.kind = "value"
                       /\ last'.ret.val.session = DecodeObject(store[sKey])
                       /\ last'.ret.val.user = DecodeObject(store[uKey])
                       /\ last'.ret.val.user["id"] = last'.ret.val.session["userId"]
                  ELSE last'.ret = NullRet

\* C10: getSessionAndUser(token) changes no key; when the session hash of the
\* token and the user hash of its userId both exist it returns the pair of
\* the stored session and the stored user, whose id is session.userId;
\* otherwise it returns not-found.
C10_SessionAndUser == [][C10_Get]_vars

\* getSessionAndUser has just returned a session with its user
C10_Witness ==
    /\ last.op = "getSessionAndUser"
    /\ last.ret.kind = "value"
    /\ last.ret.val.session["sessionToken"] = Str(last.arg)
    /\ Exists(store, getUserKey(last.ret.val.session["userId"].v))

-----------------------------------------------------------------------------
(* Writes over a stored hash                                               *)

C11_Overwrite ==
    /\ last'.op = "linkAccount"
            => getAccount(store', last'.ret.val["id"].v) = last'.ret.val
    /\ last'.op = "createSession"
            => getSession(store', last'.ret.val["id"].v) = last'.ret.val

\* C11: after linkAccount(r2), also for an account id that already stores r1,
\* reading the account yields exactly the fields of r2 plus its id, and no
\* field of r1 that r2 does not supply survives; the same for createSession.
C11_FullHashOverwrite == [][C11_Overwrite]_vars

-----------------------------------------------------------------------------
(* The hash codec on its own: setObjectAsHash and loadObjectFromHash on     *)
(* session and verification-token records whose string field may hold any   *)
(* text, a text that isoDateRE matches included                             *)

CodecTexts == {"t1"} \cup Instants \cup DOMAIN NonCanonical

CodecKeys == {getSessionKey("s1"), getVerificationKey("i1")}

\* a timestamp field and, optionally, a string field
CodecObjects ==
    { e @@ t : e \in OptDate("expires", Instants) \ {<<>>},
               t \in Opt("token", CodecTexts) }

SetObjectAsHash ==
    \E key \in CodecKeys, object \in CodecObjects :
        /\ Done("setObjectAsHash", <<key, object>>,
                Res(setObjectAsHash(store, key, object), VoidRet))
        /\ UNCHANGED issued

LoadObjectFromHash ==
    \E key \in CodecKeys :
        /\ LET object == loadObjectFromHash(store, key)
           IN  Done("loadObjectFromHash", key,
                    Res(store, IF object = Null THEN NullRet ELSE Value(object)))
        /\ UNCHANGED issued

NextCodec ==
    \/ SetObjectAsHash
    \/ LoadObjectFromHash

SpecCodec == Init /\ [][NextCodec]_vars

\* the record a read returns right after `object` was written under `key`
C12_Back == loadObjectFromHash(store, last.arg[1])

C12_Timestamps ==
    \A f \in DOMAIN last.arg[2] :
        last.arg[2][f].t = "date" => C12_Back[f] = last.arg[2][f]

-----------------------------------------------------------------------------
(* Pointers and the hashes they name                                       *)

\* C13: after any sequence of operations run one after another, every pointer
\* key that is present names a primary hash that exists: an email pointer the
\* id of a stored user, an account-by-user pointer the key of a stored account
\* hash, a session-by-user pointer the key of a stored session hash.
C13_PointerValidity ==
    \A k \in DOMAIN store :
        /\ k[1] = "user:email:" => Exists(store, getUserKey(store[k]))
        /\ k[1] = "account:user:" => Exists(store, store[k])
        /\ k[1] = "session:user:" => Exists(store, store[k])

-----------------------------------------------------------------------------
(* Calls in flight together: a process runs one call, one round-trip to    *)
(* the backend per step, and other processes' round-trips come in between  *)

\* a round-trip of process p: the keyspace it leaves, and the call's state
Step(p, label, S, next) ==
    /\ store' = S
    /\ proc' = [proc EXCEPT ![p] = next]
    /\ sched' = Append(sched, <<p, label>>)
    /\ UNCHANGED <<issued, last, budget>>

\* useVerificationToken up to the end of `await getVerificationToken(id)`,
\* and the comparison that follows it
UseVerificationToken_get(p) ==
    /\ proc[p].pc = "idle"
    /\ \E v \in VerificationUses :
        LET token == getVerificationToken(store, v.identifier.v)
            miss == token = Null \/ v.token # token["token"]
        IN  Step(p, "get", store,
                 [op |-> "useVerificationToken", arg |-> v, local |-> token,
                  pc |-> IF miss THEN "done" ELSE "delete",
                  ret |-> IF miss THEN NullRet ELSE VoidRet])

\* `await deleteVerificationToken(id); return token`
UseVerificationToken_delete(p) ==
    /\ proc[p].op = "useVerificationToken"
    /\ proc[p].pc = "delete"
    /\ Step(p, "delete", deleteVerificationToken(store, proc[p].arg.identifier.v),
            [proc[p] EXCEPT !.pc = "done", !.ret = Value(proc[p].local)])

\* the one createVerificationToken of the run
CreateVerificationTokenOnce ==
    /\ last.op = "init"
    /\ CreateVerificationToken

NextConcurrentUse ==
    \/ CreateVerificationTokenOnce
    \/ \E p \in Procs : UseVerificationToken_get(p)
    \/ \E p \in Procs : UseVerificationToken_delete(p)

SpecConcurrentUse == Init /\ [][NextConcurrentUse]_vars

\* the calls that returned the token record
C14_Winners ==
    {p \in Procs : /\ proc[p].op = "useVerificationToken"
                   /\ proc[p].pc = "done"
                   /\ proc[p].ret.kind = "value"}

\* C14: of the useVerificationToken calls that run concurrently after one
\* createVerificationToken, whatever the order of their round-trips, at most
\* one returns the token record.
C14_ConcurrentSingleUse == Cardinality(C14_Winners) <= 1

-----------------------------------------------------------------------------
(* createSession and deleteSession in flight together                      *)

\* createSession up to the end of `await setObjectAsHash(sessionKey, session)`
CreateSession_hset(p) ==
    /\ proc[p].pc = "idle"
    /\ \E session \in SessionRecords(CallerIds(issued)) :
        LET id == session.sessionToken.v
            s == ("id" :> Str(id)) @@ session
        IN  Step(p, "hset", setObjectAsHash(store, getSessionKey(id), s),
                 [op |-> "createSession", arg |-> session, local |-> s,
                  pc |-> "set", ret |-> VoidRet])

\* `await client.set(getSessionByUserIdKey(session.userId), sessionKey)`
CreateSession_set(p) ==
    /\ proc[p].op = "createSession"
    /\ proc[p].pc = "set"
    /\ Step(p, "set",
            setSession_pointer(store, proc[p].arg.sessionToken.v, proc[p].local),
            [proc[p] EXCEPT !.pc = "done", !.ret = Value(proc[p].local)])

\* deleteSession up to the end of `await getSession(sessionToken)`
DeleteSession_get(p) ==
    /\ proc[p].pc = "idle"
    /\ \E t \in SessionTokens :
        LET session == getSession(store, t)
        IN  Step(p, "get", store,
                 [op |-> "deleteSession", arg |-> t, local |-> session,
                  pc |-> IF session = Null THEN "done" ELSE "delHash",
                  ret |-> IF session = Null THEN NullRet ELSE VoidRet])

\* `await client.del(key)`
DeleteSession_delHash(p) ==
    /\ proc[p].op = "deleteSession"
    /\ proc[p].pc = "delHash"
    /\ Step(p, "delHash", Del(store, {getSessionKey(proc[p].arg)}),
            [proc[p] EXCEPT !.pc = "delPointer"])

\* `await client.del(getSessionByUserIdKey(session.userId))`
DeleteSession_delPointer(p) ==
    /\ proc[p].op = "deleteSession"
    /\ proc[p].pc = "delPointer"
    /\ Step(p, "delPointer",
            Del(store, {getSessionByUserIdKey(Text(proc[p].local, "userId"))}),
            [proc[p] EXCEPT !.pc = "done"])

\* the createSession that stores the session before the others start
CreateSessionFirst ==
    /\ last.op = "init"
    /\ sched = <<>>
    /\ CreateSession

NextConcurrentSession ==
    \/ CreateSessionFirst
    \/ \E p \in Procs : CreateSession_hset(p)
    \/ \E p \in Procs : CreateSession_set(p)
    \/ \E p \in Procs : DeleteSession_get(p)
    \/ \E p \in Procs : DeleteSession_delHash(p)
    \/ \E p \in Procs : DeleteSession_delPointer(p)

SpecConcurrentSession == Init /\ [][NextConcurrentSession]_vars

\* round-trip a reached the backend before round-trip b
Before(a, b) ==
    \E i, j \in 1..Len(sched) : i < j /\ sched[i] = a /\ sched[j] = b

\* c has completed createSession(s) and d deleteSession(s.sessionToken), s
\* being the session that was stored before either started
C15_Pair(c, d) ==
    /\ last.op = "createSession"
    /\ proc[c].op = "createSession" /\ proc[c].pc = "done"
    /\ proc[d].op = "deleteSession" /\ proc[d].pc = "done"
    /\ proc[c].arg = last.arg
    /\ proc[d].arg = last.arg.sessionToken.v

\* the session-by-user pointer of s.userId is present and names the key of s,
\* and no hash is stored under that key
C15_Dangling(s) ==
    /\ Exists(store, getSessionByUserIdKey(s.userId.v))
    /\ store[getSessionByUserIdKey(s.userId.v)] = getSessionKey(s.sessionToken.v)
    /\ ~Exists(store, getSessionKey(s.sessionToken.v))

\* C15: createSession(s) and deleteSession(s.sessionToken), s already stored,
\* end with the pointer of s.userId present and the session hash absent in
\* exactly the interleavings where the hash is written before the delete
\* removes it and the pointer is written after the delete removed it; such an
\* interleaving exists.
C15_InconsistencyWindow ==
    \A c, d \in Procs :
        C15_Pair(c, d)
            => (C15_Dangling(last.arg)
                    <=> /\ Before(<<c, "hset">>, <<d, "delHash">>)
                        /\ Before(<<d, "delPointer">>, <<c, "set">>))

C15_Witness ==
    \E c, d \in Procs : C15_Pair(c, d) /\ C15_Dangling(last.arg)

-----------------------------------------------------------------------------
(* Two provider accounts of one user                                       *)

\* last is linkAccount(a1) and the step is linkAccount(a2), a2 another provider
\* account of the same user
C16_SecondLink ==
    /\ last.op = "linkAccount"
    /\ last'.op = "linkAccount"
    /\ last'.arg.userId = last.arg.userId
    /\ last'.ret.val["id"] # last.ret.val["id"]

C16_Replace ==
    LET a1 == last.ret.val
        a2 == last'.ret.val
        U == last.arg.userId.v
        found == getUserByAccount(store', a1.providerAccountId.v, a1.provider.v).ret
    IN  C16_SecondLink
            => /\ Exists(store', getAccountByUserIdKey(U))
               /\ store'[getAccountByUserIdKey(U)] = getAccountKey(a2["id"].v)
               /\ Exists(store', getAccountKey(a1["id"].v))
               /\ store'[getAccountKey(a1["id"].v)] = store[getAccountKey(a1["id"].v)]
               /\ store'[getAccountKey(a1["id"].v)]["userId"] = U
               /\ IF Exists(store', getUserKey(U))
                  THEN found.kind = "value" /\ found.val["id"] = Str(U)
                  ELSE found = NullRet

\* C16: after linkAccount(a1) then linkAccount(a2) for two different provider
\* accounts of the same user U, the account-by-user pointer of U holds the key
\* of a2, the hash of a1 is still stored, and getUserByAccount for a1 still
\* returns the user U (not-found if no user hash of U is stored).
C16_SinglePointerReplacement == [][C16_Replace]_vars

\* the second of two accounts of a stored user has just been linked
C16_Witness ==
    /\ last.op = "linkAccount"
    /\ \E id \in AccountIds :
        /\ id # last.ret.val["id"].v
        /\ OwnedBy(store, id, last.arg.userId.v)
        /\ getAccountByUserIdKey(last.arg.userId.v) \in last.written
        /\ getUserByAccount(store, last.arg.providerAccountId.v,
                            last.arg.provider.v).ret.kind = "value"

-----------------------------------------------------------------------------
(* The id field of a stored hash                                           *)

C17_Primary == {"user:", "account:", "session:"}

\* C17: in every reachable state each stored user, account and session hash
\* carries an id field equal to the identity part of its own key.
C17_IdImmutable ==
    \A k \in DOMAIN store :
        k[1] \in C17_Primary
            => "id" \in DOMAIN store[k] /\ store[k]["id"] = k[2]

-----------------------------------------------------------------------------
(* What deleteUser removes of a user's accounts and sessions               *)

C18_Hashes == {"account:", "session:"}

C18_NoneLeft ==
    (last'.op = "deleteUser" /\ Exists(store, getUserKey(last'.arg)))
        => \A k \in DOMAIN store' :
               k[1] \in C18_Hashes => store'[k]["userId"] # last'.arg

\* C18: after any sequence of linkAccount and createSession calls for a user
\* U, several accounts or sessions of U included, a completed deleteUser(U)
\* leaves no stored account hash and no stored session hash whose userId is U.
C18_CompleteCascade == [][C18_NoneLeft]_vars

\* the keys the two by-user pointers of U name
Pointed(S, U) ==
    {S[ptr] : ptr \in {getAccountByUserIdKey(U), getSessionByUserIdKey(U)}
                        \cap DOMAIN S}

\* what deleteUser does remove: the hashes the two pointers of U name, and no
\* other account or session hash
PointedCascade ==
    LET U == last'.arg
    IN  (last'.op = "deleteUser" /\ Exists(store, getUserKey(U)))
            => /\ last'.ret = VoidRet
               /\ \A k \in Pointed(store, U) : ~Exists(store', k)
               /\ \A k \in DOMAIN store \ Pointed(store, U) :
                      k[1] \in C18_Hashes
                          => Exists(store', k) /\ store'[k] = store[k]

DeleteUserRemovesPointed == [][PointedCascade]_vars

-----------------------------------------------------------------------------
(* What deleteUser removes of other users                                  *)

C19_Isolated ==
    LET U == last'.arg
    IN  last'.op = "deleteUser"
            => \A k \in DOMAIN store \ DOMAIN store' :
                /\ k[1] = "user:" => k[2] = U
                /\ k[1] \in {"account:", "session:"} => store[k]["userId"] = U
                /\ k[1] = "user:email:"
                        => ~(store[k] # U /\ Exists(store, getUserKey(store[k])))

\* C19: deleteUser(U) removes no user hash, account hash or session hash whose
\* userId is another user V, and no email pointer that resolves to another
\* user V.
C19_DeleteIsolation == [][C19_Isolated]_vars

-----------------------------------------------------------------------------
(* The email index                                                         *)

\* C20: after any sequence of createUser, updateUser and deleteUser calls run
\* one at a time, a user that getUserByEmail(e) returns has e as its stored
\* email; after updateUser changed the email from e1 to e2, getUserByEmail(e1)
\* does not return that user.
C20_EmailIndexAccuracy ==
    \A e \in Emails :
        LET found == getUserByEmail(store, e).ret
        IN  found.kind = "value"
                => "email" \in DOMAIN found.val /\ found.val["email"] = Str(e)

-----------------------------------------------------------------------------
(* Two updateUser calls in flight together                                 *)

\* updateUser up to the end of `await getUser(userId)`, and the spread
\* { ...user, ...updates } that follows it
UpdateUser_get(p) ==
    /\ proc[p].pc = "idle"
    /\ \E updates \in UserUpdates(CallerIds(issued)) :
        LET user == getUser(store, Text(updates, "id"))
            merged == IF user = Null THEN updates ELSE updates @@ user
        IN  Step(p, "get", store,
                 [op |-> "updateUser", arg |-> updates, local |-> merged,
                  pc |-> "hset", ret |-> VoidRet])

\* setUser: `await setObjectAsHash(getUserKey(id), user)`
UpdateUser_hset(p) ==
    /\ proc[p].op = "updateUser"
    /\ proc[p].pc = "hset"
    /\ Step(p, "hset",
            setObjectAsHash(store, getUserKey(Text(proc[p].arg, "id")), proc[p].local),
            IF Truthy(proc[p].local, "email")
            THEN [proc[p] EXCEPT !.pc = "set"]
            ELSE [proc[p] EXCEPT !.pc = "done", !.ret = Value(proc[p].local)])

\* setUser: `await client.set(getUserByEmailKey(user.email), id)`
UpdateUser_set(p) ==
    /\ proc[p].op = "updateUser"
    /\ proc[p].pc = "set"
    /\ Step(p, "set",
            Set(store, getUserByEmailKey(Text(proc[p].local, "email")),
                Text(proc[p].arg, "id")),
            [proc[p] EXCEPT !.pc = "done", !.ret = Value(proc[p].local)])

\* the createUser that stores the user before the others start
CreateUserFirst ==
    /\ last.op = "init"
    /\ sched = <<>>
    /\ CreateUser

NextConcurrentUpdate ==
    \/ CreateUserFirst
    \/ \E p \in Procs : UpdateUser_get(p)
    \/ \E p \in Procs : UpdateUser_hset(p)
    \/ \E p \in Procs : UpdateUser_set(p)

SpecConcurrentUpdate == Init /\ [][NextConcurrentUpdate]_vars

\* c and d have completed updateUser for the user stored before either
\* started; each supplies a field besides the id, and none in common
C21_Pair(c, d) ==
    /\ c # d
    /\ last.op = "createUser"
    /\ proc[c].op = "updateUser" /\ proc[c].pc = "done"
    /\ proc[d].op = "updateUser" /\ proc[d].pc = "done"
    /\ proc[c].arg["id"] = last.ret.val["id"]
    /\ proc[d].arg["id"] = last.ret.val["id"]
    /\ DOMAIN proc[c].arg # {"id"} /\ DOMAIN proc[d].arg # {"id"}
    /\ DOMAIN proc[c].arg \cap DOMAIN proc[d].arg = {"id"}

\* C21: when two updateUser calls for the same stored user supply disjoint
\* sets of fields and their round-trips interleave in any order, the user hash
\* after both complete holds the supplied value of every field of both calls.
C21_NoLostUpdate ==
    \A c, d \in Procs :
        C21_Pair(c, d)
            => LET hash == store[getUserKey(last.ret.val["id"].v)]
               IN  \A f \in DOMAIN proc[c].arg :
                       f \in DOMAIN hash /\ hash[f] = proc[c].arg[f].v

====
